---- MODULE Spec2Model ----
(***************************************************************************)
(* Model of the CNPJ importer (src/importar-dados.py): the chunk loop of   *)
(* _importar_arquivo_principal, the deduplication of _remover_duplicatas   *)
(* and the row-by-row UPSERT of _upsert_chunk_inteligente against the      *)
(* tables created by _get_schema_fallback.                                 *)
(*                                                                         *)
(* Encoding.  A table is the sequence of its rows in insertion order (the  *)
(* rowid order of SQLite); a row is a record over the table's columns.     *)
(* Text cells are strings, None is Python's None / SQL NULL.  The raw      *)
(* capital_social cell is a sequence of characters so that its parsing is  *)
(* computed; the parsed capital is an integer number of cents.  A period   *)
(* folder "YYYY-MM" is the pair <<YYYY, MM>> and the stamp "YYYY-MM-01" is *)
(* the triple <<YYYY, MM, 1>>; SemData is a NULL stamp.  Fixed-width digit *)
(* strings compare as these tuples compare.                                *)
(*                                                                         *)
(* Columns.  Each table keeps its key columns and one column for every     *)
(* distinct treatment the UPDATE/INSERT statements give: for empresa,      *)
(* razao_social and natureza_juridica (both read by the WHERE guard),      *)
(* capital_social (numeric CASE) and porte_empresa (plain COALESCE, as     *)
(* qualificacao_responsavel and ente_federativo_responsavel); for          *)
(* estabelecimento, nome_fantasia and telefone1 (plain COALESCE, as the 25 *)
(* other descriptive columns); for socio, qualificacao_socio (plain        *)
(* COALESCE, as the 7 other descriptive columns).                          *)
(***************************************************************************)
EXTENDS Integers, Sequences, FiniteSets, TLC

VARIABLES
    empresa,          \* table empresa
    estabelecimento,  \* table estabelecimento
    socio,            \* table socio
    tabela,           \* entity type of the files being imported
    pasta_nome,       \* period folder of the chunk being processed
    df,               \* rows of the current chunk still to be applied
    pc,               \* "ocioso" between chunks, "upsert" inside the row loop
    inseridos,        \* insert counter of the current chunk
    atualizados,      \* update counter of the current chunk
    ult,              \* history: the last row application
    lote,             \* input batch of the deduplicator (SpecDedup)
    sem_dup,          \* output batch of the deduplicator (SpecDedup)
    duravel,          \* the committed rows of the table of the run's type
    inicio,           \* history: that table at the last chunk boundary
    descobertos,      \* folder of each file of the run's type, as found (SpecRun)
    fila,             \* folders of the files still to import, sorted (SpecRun)
    feitos,           \* history: periods of the files imported so far (SpecRun)
    avistados,        \* history: the lines of those files, cleaned and stamped
    referencia,       \* reference table cnae (SpecRef)
    arquivos_ref,     \* estrutura_completa['cnae']: its files, as listed (SpecRef)
    ref_antes,        \* history: the reference table before the load (SpecRef)
    restantes,        \* chunks of the file still to be read (SpecArquivo)
    total_registros,  \* insert count of the file so far (SpecArquivo)
    atualizacoes,     \* update count of the file so far (SpecArquivo)
    retorno,          \* what _importar_arquivo_principal returned (SpecArquivo)
    alteradas,        \* history: UPDATEs of the file that changed a row
    falhou,           \* history: a commit of the file has raised
    raiz_existe,      \* os.path.exists(DIRETORIO_BASE) (SpecTudo)
    db_abre,          \* sqlite3.connect and the PRAGMAs succeed (SpecTudo)
    diretorio,        \* the entries of the root: name -> types of its files
    estrutura_completa, \* escanear_estrutura_completa: type -> folders of its files
    tabelas_criadas,  \* criar_tabelas has run (SpecTudo)
    tentados,         \* history: the files the main import took, in order
    relatorio,        \* mostrar_estatisticas has run (SpecTudo)
    critico,          \* an exception reached the handler of line 935 (SpecTudo)
    saida,            \* exit status of the process, -1 while it runs (SpecTudo)
    arquivos_ordenados, \* the files of the type, in import order: folder and lines (SpecDuasVezes)
    rodada,           \* which run of the import is under way (SpecDuasVezes)
    fim_primeira      \* history: the table when the first run ended

\* the variables of SpecRun, which the chunk loop and the deduplicator leave alone
vars_run == <<descobertos, fila, feitos, avistados>>

\* the variables of SpecRef, which the import of the main tables leaves alone
vars_ref == <<referencia, arquivos_ref, ref_antes>>

\* the variables of SpecArquivo, which the other specifications leave alone
vars_arq == <<restantes, total_registros, atualizacoes, retorno, alteradas, falhou>>

\* the variables of SpecTudo, which the other specifications leave alone
vars_tudo == <<raiz_existe, db_abre, diretorio, estrutura_completa,
               tabelas_criadas, tentados, relatorio, critico, saida>>

\* the variables of SpecDuasVezes, which the other specifications leave alone
vars_duas == <<arquivos_ordenados, rodada, fim_primeira>>

vars == <<empresa, estabelecimento, socio, tabela, pasta_nome, df, pc,
          inseridos, atualizados, ult, lote, sem_dup, duravel, inicio,
          descobertos, fila, feitos, avistados,
          referencia, arquivos_ref, ref_antes,
          restantes, total_registros, atualizacoes, retorno, alteradas, falhou,
          raiz_existe, db_abre, diretorio, estrutura_completa,
          tabelas_criadas, tentados, relatorio, critico, saida,
          arquivos_ordenados, rodada, fim_primeira>>

-----------------------------------------------------------------------------
(* Bounds of the model *)

\* rows per chunk (chunk_size = 50000 in the source, scaled down)
MaxChunk == 2
\* rows a table may hold: a chunk that would grow it further is not read
MaxLinhas == 2
\* rows of a batch handed to the deduplicator in SpecDedup
MaxLote == 3
\* files of one type found under the base directory in SpecRun
MaxArquivos == 2

-----------------------------------------------------------------------------
(* Values *)

None == "<None>"
SemData == <<>>
NaN == -1

Tabelas == {"empresa", "estabelecimento", "socio"}

\* the YYYY-MM folders, as <<year, month>>.  A run sorts its files by folder
\* (line 464) and a folder may hold several files of one type; the database
\* outlives the run (CREATE TABLE IF NOT EXISTS), so a later run may bring an
\* older folder: chunks arrive from the folders in any order.
Pastas == {<<2023, 5>>, <<2024, 1>>}

\* columns of each table, data_atualizacao excluded (self.estrutura_colunas)
estrutura_colunas(t) ==
    CASE t = "empresa" ->
           {"cnpj_basico", "razao_social", "natureza_juridica",
            "capital_social", "porte_empresa"}
      [] t = "estabelecimento" ->
           {"cnpj_basico", "cnpj_ordem", "cnpj_dv", "nome_fantasia", "telefone1"}
      [] t = "socio" ->
           {"cnpj_basico", "nome_socio_razao_social", "cpf_cnpj_socio",
            "qualificacao_socio"}

\* natural key of each table (subset of drop_duplicates, WHERE of the SELECT)
chave(t) ==
    CASE t = "empresa" -> {"cnpj_basico"}
      [] t = "estabelecimento" -> {"cnpj_basico", "cnpj_ordem", "cnpj_dv"}
      [] t = "socio" -> {"cnpj_basico", "nome_socio_razao_social", "cpf_cnpj_socio"}

-----------------------------------------------------------------------------
(* Cleaning and conversion of a chunk (_importar_arquivo_principal) *)

\* chunk.replace({'': None}) on one text cell
Limpar(v) == IF v = "" THEN None ELSE v

\* f"{pasta_nome[:4]}-{pasta_nome[5:7]}-01"
DataAtualizacao(pasta) == <<pasta[1], pasta[2], 1>>

Digitos == {"0", "1", "2", "3", "4", "5", "6", "7", "8", "9"}

DigVal(c) ==
    CASE c = "0" -> 0 [] c = "1" -> 1 [] c = "2" -> 2 [] c = "3" -> 3
      [] c = "4" -> 4 [] c = "5" -> 5 [] c = "6" -> 6 [] c = "7" -> 7
      [] c = "8" -> 8 [] c = "9" -> 9

\* replace('': None) followed by astype(str): the empty cell becomes 'None'
AstypeStr(s) == IF s = <<>> THEN <<"N", "o", "n", "e">> ELSE s

\* str.replace(',', '.')
StrReplaceVirgula(s) == [i \in DOMAIN s |-> IF s[i] = "," THEN "." ELSE s[i]]

RECURSIVE ValorDigitos(_)
ValorDigitos(s) ==
    IF s = <<>> THEN 0
    ELSE 10 * ValorDigitos(SubSeq(s, 1, Len(s) - 1)) + DigVal(s[Len(s)])

\* pd.to_numeric(errors='coerce') on decimal numerals of at most two decimals,
\* in cents; anything else is NaN
ToNumeric(s) ==
    LET pontos == {i \in DOMAIN s : s[i] = "."}
        soDigitos(x) == \A i \in DOMAIN x : x[i] \in Digitos
    IN  IF s = <<>> \/ Cardinality(pontos) > 1 THEN NaN
        ELSE IF pontos = {} THEN
                 IF soDigitos(s) THEN 100 * ValorDigitos(s) ELSE NaN
        ELSE LET p == CHOOSE i \in pontos : TRUE
                 int == SubSeq(s, 1, p - 1)
                 dec == SubSeq(s, p + 1, Len(s))
             IN  IF soDigitos(int) /\ soDigitos(dec) /\ Len(int) + Len(dec) > 0
                    /\ Len(dec) <= 2
                 THEN 100 * ValorDigitos(int)
                      + (IF Len(dec) = 1 THEN 10 * ValorDigitos(dec)
                         ELSE ValorDigitos(dec))
                 ELSE NaN

\* .fillna(0)
Fillna0(x) == IF x = NaN THEN 0 ELSE x

\* lines 542-544: the capital_social column of an empresa chunk
ConverterCapital(s) == Fillna0(ToNumeric(StrReplaceVirgula(AstypeStr(s))))

\* lines 532-544: one raw row of a chunk, cleaned, stamped and converted
PrepararLinha(t, bruta, pasta) ==
    [c \in DOMAIN bruta \cup {"data_atualizacao"} |->
        IF c = "data_atualizacao" THEN DataAtualizacao(pasta)
        ELSE IF t = "empresa" /\ c = "capital_social"
             THEN ConverterCapital(bruta[c])
        ELSE Limpar(bruta[c])]

PrepararChunk(t, bruto, pasta) ==
    [i \in DOMAIN bruto |-> PrepararLinha(t, bruto[i], pasta)]

-----------------------------------------------------------------------------
(* Deduplicator (_remover_duplicatas) *)

\* DataFrame.drop_duplicates(subset=...): keep='first' is the default, and
\* None equals None when rows are compared
RECURSIVE DropDuplicatesDe(_, _, _)
DropDuplicatesDe(d, subset, vistos) ==
    IF d = <<>> THEN <<>>
    ELSE LET k == [c \in subset |-> Head(d)[c]]
         IN  IF k \in vistos
             THEN DropDuplicatesDe(Tail(d), subset, vistos)
             ELSE <<Head(d)>> \o DropDuplicatesDe(Tail(d), subset, vistos \cup {k})

drop_duplicates(d, subset) == DropDuplicatesDe(d, subset, {})

\* df.columns
Colunas(d) == IF d = <<>> THEN {} ELSE DOMAIN d[1]

\* faulty variant: only a row repeating the key of the row before it is dropped
MutRemoverDuplicatasAdjacentes(t, d) ==
    IF chave(t) \subseteq Colunas(d)
    THEN LET k(i) == [c \in chave(t) |-> d[i][c]]
             I == {i \in DOMAIN d : i = 1 \/ k(i) # k(i - 1)}
             RECURSIVE Sel(_)
             Sel(n) == IF n = 0 THEN <<>>
                       ELSE IF n \in I THEN Append(Sel(n - 1), d[n])
                       ELSE Sel(n - 1)
         IN  Sel(Len(d))
    ELSE d

_remover_duplicatas(t, d) ==
    IF chave(t) \subseteq Colunas(d)
    THEN drop_duplicates(d, chave(t))
    ELSE d

-----------------------------------------------------------------------------
(* SQL expressions of the statements of _upsert_chunk_inteligente *)

\* a = b is true only when neither side is NULL
SqlEq(a, b) == a # None /\ b # None /\ a = b

NULLIF(v, w) == IF v = w THEN None ELSE v

\* faulty variants: the new value always wins; the stored value always wins
MutCOALESCE(a, b) == a

MutCOALESCETroca(a, b) == IF b # None THEN b ELSE a

COALESCE(a, b) == IF a # None THEN a ELSE b

\* ? > data_atualizacao, on two 'YYYY-MM-01' texts; NULL when the column is NULL
DataMaior(a, b) ==
    /\ a # SemData
    /\ b # SemData
    /\ \/ a[1] > b[1]
       \/ a[1] = b[1] /\ a[2] > b[2]
       \/ a[1] = b[1] /\ a[2] = b[2] /\ a[3] > b[3]

\* faulty variants: the parameter always wins; it only fills a zero capital
MutCapitalCase(capital, antigo) == capital

MutCapitalCaseSoVazio(capital, antigo) == IF antigo = 0 THEN capital ELSE antigo

\* CASE WHEN ? IS NOT NULL AND ? != 0 THEN ? ELSE capital_social END; the
\* parameter is a number (line 544 leaves no NaN), never NULL
CapitalCase(capital, antigo) == IF capital # 0 THEN capital ELSE antigo

\* lines 627-632: the capital parameter of the UPDATE
CapitalParam(row) ==
    IF "capital_social" \in DOMAIN row THEN row.capital_social ELSE 0

\* str.strip() on the text values of the model
Brancos == {"", " "}
Strip(v) == IF v \in Brancos THEN "" ELSE v

\* SELECT 1 FROM <tabela> WHERE <key columns> = ? ... fetchone()
ExisteReg(t, reg, row) == \A c \in chave(t) : SqlEq(reg[c], row[c])
Existe(t, tab, row) == \E i \in DOMAIN tab : ExisteReg(t, tab[i], row)

\* faulty variant: the blank-field terms of the guard are left out
MutWhereEmpresaSoData(reg, row) ==
    /\ SqlEq(reg.cnpj_basico, row.cnpj_basico)
    /\ DataMaior(row.data_atualizacao, reg.data_atualizacao)

\* WHERE of the empresa UPDATE (lines 618-624)
WhereEmpresa(reg, row) ==
    /\ SqlEq(reg.cnpj_basico, row.cnpj_basico)
    /\ \/ reg.razao_social = None
       \/ reg.razao_social = ""
       \/ reg.natureza_juridica = None
       \/ reg.natureza_juridica = ""
       \/ DataMaior(row.data_atualizacao, reg.data_atualizacao)

\* SET of the empresa UPDATE (lines 607-617)
SetEmpresa(reg, row) ==
    [reg EXCEPT
        !.razao_social = COALESCE(NULLIF(row.razao_social, ""), @),
        !.natureza_juridica = COALESCE(NULLIF(row.natureza_juridica, ""), @),
        !.capital_social = CapitalCase(CapitalParam(row), @),
        !.porte_empresa = COALESCE(NULLIF(row.porte_empresa, ""), @),
        !.data_atualizacao = row.data_atualizacao]

\* faulty variant: the establishment is looked up by its company alone
MutWhereEstabelecimentoSoBasico(reg, row) ==
    SqlEq(reg.cnpj_basico, row.cnpj_basico)

\* WHERE and SET of the estabelecimento UPDATE (lines 682-713)
WhereEstabelecimento(reg, row) ==
    /\ SqlEq(reg.cnpj_basico, row.cnpj_basico)
    /\ SqlEq(reg.cnpj_ordem, row.cnpj_ordem)
    /\ SqlEq(reg.cnpj_dv, row.cnpj_dv)

SetEstabelecimento(reg, row) ==
    [reg EXCEPT
        !.nome_fantasia = COALESCE(NULLIF(row.nome_fantasia, ""), @),
        !.telefone1 = COALESCE(NULLIF(row.telefone1, ""), @),
        !.data_atualizacao = row.data_atualizacao]

\* faulty variant: the partner name is left out of the key
MutWhereSocioSemNome(reg, row) ==
    /\ SqlEq(reg.cnpj_basico, row.cnpj_basico)
    /\ SqlEq(reg.cpf_cnpj_socio, row.cpf_cnpj_socio)

\* WHERE and SET of the socio UPDATE (lines 750-762)
WhereSocio(reg, row) ==
    /\ SqlEq(reg.cnpj_basico, row.cnpj_basico)
    /\ SqlEq(reg.nome_socio_razao_social, row.nome_socio_razao_social)
    /\ SqlEq(reg.cpf_cnpj_socio, row.cpf_cnpj_socio)

SetSocio(reg, row) ==
    [reg EXCEPT
        !.qualificacao_socio = COALESCE(NULLIF(row.qualificacao_socio, ""), @),
        !.data_atualizacao = row.data_atualizacao]

Where(t, reg, row) ==
    CASE t = "empresa" -> WhereEmpresa(reg, row)
      [] t = "estabelecimento" -> WhereEstabelecimento(reg, row)
      [] t = "socio" -> WhereSocio(reg, row)

Set(t, reg, row) ==
    CASE t = "empresa" -> SetEmpresa(reg, row)
      [] t = "estabelecimento" -> SetEstabelecimento(reg, row)
      [] t = "socio" -> SetSocio(reg, row)

\* faulty variant: the rows the WHERE selects are deleted
MutUpdateApaga(t, tab, row) ==
    SelectSeq(tab, LAMBDA reg : ~Where(t, reg, row))

\* the UPDATE statement: every row the WHERE selects is rewritten, and
\* cursor.rowcount is the number of rows selected
Update(t, tab, row) ==
    [i \in DOMAIN tab |-> IF Where(t, tab[i], row) THEN Set(t, tab[i], row) ELSE tab[i]]

Rowcount(t, tab, row) == Cardinality({i \in DOMAIN tab : Where(t, tab[i], row)})

\* the record an INSERT builds: the columns of estrutura_colunas whose value
\* is not None; every other column, data_atualizacao included, stays NULL
Registro(t, row) ==
    [c \in estrutura_colunas(t) \cup {"data_atualizacao"} |->
        IF c = "data_atualizacao" THEN SemData
        ELSE IF c \in DOMAIN row THEN row[c]
        ELSE None]

\* faulty variant: the NOT NULL constraints are not enforced
MutNotNullViolado(t, reg) == FALSE

\* constraints of the schema (_get_schema_fallback): NOT NULL columns, and the
\* PRIMARY KEY of empresa and estabelecimento (socio has none); a NULL key
\* part never conflicts
NotNullViolado(t, reg) ==
    \/ t = "empresa" /\ reg.razao_social = None
    \/ t = "socio" /\ reg.nome_socio_razao_social = None

PrimaryKeyViolada(t, tab, reg) ==
    /\ t \in {"empresa", "estabelecimento"}
    /\ \E i \in DOMAIN tab : \A c \in chave(t) : SqlEq(tab[i][c], reg[c])

\* faulty variant: no condition on the INSERT branch
MutPodeInserir(t, row) == TRUE

\* the condition of the INSERT branch: a non-blank razao_social for empresa
\* (line 645), nothing for the other two tables
PodeInserir(t, row) ==
    t = "empresa" =>
        /\ row.razao_social # None
        /\ row.razao_social # ""
        /\ Strip(row.razao_social) # ""

\* one iteration of the row loop: the new table and what the iteration counted
UpsertLinha(t, tab, row) ==
    IF Existe(t, tab, row)
    THEN [tab |-> Update(t, tab, row),
          op |-> IF Rowcount(t, tab, row) > 0 THEN "atualizado" ELSE "inalterado"]
    ELSE IF ~PodeInserir(t, row)
         THEN [tab |-> tab, op |-> "ignorado"]
    ELSE IF NotNullViolado(t, Registro(t, row))
            \/ PrimaryKeyViolada(t, tab, Registro(t, row))
         THEN [tab |-> tab, op |-> "erro"]
    ELSE [tab |-> Append(tab, Registro(t, row)), op |-> "inserido"]

\* the table after the whole row loop over the chunk d
RECURSIVE UpsertTodas(_, _, _)
UpsertTodas(t, tab, d) ==
    IF d = <<>> THEN tab
    ELSE UpsertTodas(t, UpsertLinha(t, tab, Head(d)).tab, Tail(d))

-----------------------------------------------------------------------------
(* Inputs: the raw rows a source file can hold, as read by pd.read_csv with *)
(* dtype=str and na_filter=False (an empty cell is the empty string)        *)

CapitaisBrutos ==
    {<<>>,
     <<"1", "0", "0", "0", "0", ",", "0", "0">>,
     <<"2", "5", "0", "0", "0", ",", "5", "0">>}

LinhasBrutas(t) ==
    CASE t = "empresa" ->
           {[cnpj_basico |-> "1", razao_social |-> r, natureza_juridica |-> n,
             capital_social |-> c, porte_empresa |-> p] :
                r \in {"", "A", "B"}, n \in {"", "N"}, c \in CapitaisBrutos,
                p \in {"", "P"}}
           \cup
           {[cnpj_basico |-> "", razao_social |-> "A", natureza_juridica |-> "N",
             capital_social |-> <<>>, porte_empresa |-> ""],
            [cnpj_basico |-> "1", razao_social |-> "A", natureza_juridica |-> "N",
             capital_social |-> <<"0", ",", "0", "0">>, porte_empresa |-> "P"],
            [cnpj_basico |-> "1", razao_social |-> " ", natureza_juridica |-> "N",
             capital_social |-> <<>>, porte_empresa |-> ""],
            [cnpj_basico |-> "1", razao_social |-> "A", natureza_juridica |-> "N",
             capital_social |-> <<"1", "0", "x">>, porte_empresa |-> "P"]}
      [] t = "estabelecimento" ->
           {[cnpj_basico |-> "1", cnpj_ordem |-> "0001", cnpj_dv |-> "01",
             nome_fantasia |-> f, telefone1 |-> tel] :
                f \in {"", "F", "G"}, tel \in {"", "T"}}
           \cup
           {[cnpj_basico |-> "1", cnpj_ordem |-> o, cnpj_dv |-> "01",
             nome_fantasia |-> "F", telefone1 |-> ""] : o \in {"0002", ""}}
      [] t = "socio" ->
           {[cnpj_basico |-> "1", nome_socio_razao_social |-> "ANA",
             cpf_cnpj_socio |-> "111", qualificacao_socio |-> q] :
                q \in {"", "Q", "R"}}
           \cup
           {[cnpj_basico |-> "1", nome_socio_razao_social |-> n,
             cpf_cnpj_socio |-> c, qualificacao_socio |-> "Q"] :
                n \in {"BIA"}, c \in {"111"}}
           \cup
           {[cnpj_basico |-> "1", nome_socio_razao_social |-> "ANA",
             cpf_cnpj_socio |-> "", qualificacao_socio |-> "Q"],
            [cnpj_basico |-> "1", nome_socio_razao_social |-> "",
             cpf_cnpj_socio |-> "111", qualificacao_socio |-> "Q"]}

\* the rows that chunks of several rows are made of.  empresa: a first
\* sighting, a later sighting, a row without razao_social and the row without
\* key.  estabelecimento: two sightings of one key, another key and the row
\* without cnpj_ordem.  socio: two partners of one company, the row without
\* cpf_cnpj_socio and the row without name.
LinhasDeChunk(t) ==
    CASE t = "empresa" ->
           {l \in LinhasBrutas(t) :
              \/ l.cnpj_basico = ""
              \/ l.razao_social = "A" /\ l.natureza_juridica = "N"
                 /\ l.capital_social # <<>> /\ l.porte_empresa = ""
                 /\ l.capital_social[1] = "1"
              \/ l.razao_social = "B" /\ l.natureza_juridica = ""
                 /\ l.capital_social = <<>> /\ l.porte_empresa = "P"
              \/ l.razao_social = "" /\ l.natureza_juridica = "N"
                 /\ l.capital_social # <<>> /\ l.porte_empresa = ""
                 /\ l.capital_social[1] = "2"}
      [] t = "estabelecimento" ->
           {l \in LinhasBrutas(t) :
              \/ l.cnpj_ordem # "0001"
              \/ l.nome_fantasia = "F" /\ l.telefone1 = ""
              \/ l.nome_fantasia = "G" /\ l.telefone1 = "T"}
      [] t = "socio" ->
           {l \in LinhasBrutas(t) : l.qualificacao_socio = "Q"}

\* the chunks a file yields: one row, or up to MaxChunk rows of LinhasDeChunk
ChunksBrutos(t) ==
    [1..1 -> LinhasBrutas(t)]
    \cup UNION {[1..n -> LinhasDeChunk(t)] : n \in 2..MaxChunk}

-----------------------------------------------------------------------------
(* State *)

\* the table the files of type t are merged into
Tab(t) ==
    CASE t = "empresa" -> empresa
      [] t = "estabelecimento" -> estabelecimento
      [] t = "socio" -> socio

NenhumaLinha == [nenhuma |-> TRUE]

Init ==
    /\ empresa = <<>>
    /\ estabelecimento = <<>>
    /\ socio = <<>>
    /\ tabela \in Tabelas
    /\ pasta_nome = <<0, 0>>
    /\ df = <<>>
    /\ pc = "ocioso"
    /\ inseridos = 0
    /\ atualizados = 0
    /\ ult = [op |-> "nenhum", row |-> NenhumaLinha, antes |-> <<>>, rep |-> FALSE]
    /\ lote = <<>>
    /\ sem_dup = <<>>
    /\ duravel = <<>>
    /\ inicio = <<>>
    /\ descobertos = <<>>
    /\ fila = <<>>
    /\ feitos = <<>>
    /\ avistados = {}
    /\ referencia = <<>>
    /\ arquivos_ref = <<>>
    /\ ref_antes = <<>>
    /\ restantes = 0
    /\ total_registros = 0
    /\ atualizacoes = 0
    /\ retorno = <<>>
    /\ alteradas = 0
    /\ falhou = FALSE
    /\ raiz_existe = TRUE
    /\ db_abre = TRUE
    /\ diretorio = <<>>
    /\ estrutura_completa = <<>>
    /\ tabelas_criadas = FALSE
    /\ tentados = <<>>
    /\ relatorio = FALSE
    /\ critico = FALSE
    /\ saida = -1
    /\ arquivos_ordenados = <<>>
    /\ rodada = 1
    /\ fim_primeira = <<>>

\* _importar_arquivo_principal, one chunk of the read_csv iterator: the chunk
\* is cleaned, stamped, converted and deduplicated, and the row loop of
\* _upsert_chunk_inteligente starts with both counters at zero.
\* History: when Commit kept the last applied row in ult.row, the chunk read
\* is that row alone, read again from the same folder, and ult.rep says so.
LerChunk ==
    /\ pc = "ocioso"
    /\ IF ult.row # NenhumaLinha
       THEN /\ Len(UpsertTodas(tabela, Tab(tabela), <<ult.row>>)) <= MaxLinhas
            /\ df' = <<ult.row>>
            /\ pasta_nome' = pasta_nome
       ELSE \E pasta \in Pastas, bruto \in ChunksBrutos(tabela) :
               LET chunk == _remover_duplicatas(tabela,
                                PrepararChunk(tabela, bruto, pasta))
               IN  /\ Len(UpsertTodas(tabela, Tab(tabela), chunk)) <= MaxLinhas
                   /\ pasta_nome' = pasta
                   /\ df' = chunk
    /\ ult' = [op |-> "nenhum", row |-> NenhumaLinha, antes |-> <<>>,
               rep |-> ult.row # NenhumaLinha]
    /\ pc' = "upsert"
    /\ inseridos' = 0
    /\ atualizados' = 0
    /\ inicio' = Tab(tabela)
    /\ UNCHANGED <<empresa, estabelecimento, socio, tabela, lote, sem_dup, duravel>>
    /\ UNCHANGED vars_run
    /\ UNCHANGED vars_ref
    /\ UNCHANGED vars_arq
    /\ UNCHANGED vars_tudo
    /\ UNCHANGED vars_duas

\* faulty variant: a commit after every row
MutAposLinhaCommit(dur, atual) == atual

\* what one iteration of the row loop makes durable: nothing, the statements
\* run inside the transaction the first INSERT or UPDATE opened and the loop
\* holds no commit
AposLinha(dur, atual) == dur

\* _upsert_chunk_inteligente, one iteration of "for idx, row in df.iterrows()"
AplicarLinha ==
    /\ pc = "upsert"
    /\ df # <<>>
    /\ LET row == Head(df)
           r == UpsertLinha(tabela, Tab(tabela), row)
       IN  /\ empresa' = IF tabela = "empresa" THEN r.tab ELSE empresa
           /\ estabelecimento' =
                 IF tabela = "estabelecimento" THEN r.tab ELSE estabelecimento
           /\ socio' = IF tabela = "socio" THEN r.tab ELSE socio
           /\ inseridos' = IF r.op = "inserido" THEN inseridos + 1 ELSE inseridos
           /\ atualizados' = IF r.op = "atualizado" THEN atualizados + 1 ELSE atualizados
           /\ ult' = [op |-> r.op, row |-> row, antes |-> Tab(tabela),
                      rep |-> IF ult.op = "nenhum" THEN ult.rep ELSE ult.row = row]
           /\ duravel' = AposLinha(duravel, r.tab)
    /\ df' = Tail(df)
    /\ UNCHANGED <<tabela, pasta_nome, pc, lote, sem_dup, inicio>>
    /\ UNCHANGED vars_run
    /\ UNCHANGED vars_ref
    /\ UNCHANGED vars_arq
    /\ UNCHANGED vars_tudo
    /\ UNCHANGED vars_duas

\* _upsert_chunk_inteligente, after the loop: self.conn.commit() and return.
\* History: ult.row keeps the last applied row when the next chunk is going
\* to be that same row again, and forgets it otherwise.
Commit ==
    /\ pc = "upsert"
    /\ df = <<>>
    /\ pc' = "ocioso"
    /\ \E repetir \in BOOLEAN :
          ult' = [op |-> "nenhum",
                  row |-> IF repetir THEN ult.row ELSE NenhumaLinha,
                  antes |-> <<>>, rep |-> FALSE]
    /\ duravel' = Tab(tabela)
    /\ inicio' = Tab(tabela)
    /\ UNCHANGED <<empresa, estabelecimento, socio, tabela, pasta_nome, df,
                   inseridos, atualizados, lote, sem_dup>>
    /\ UNCHANGED vars_run
    /\ UNCHANGED vars_ref
    /\ UNCHANGED vars_arq
    /\ UNCHANGED vars_tudo
    /\ UNCHANGED vars_duas

\* the run is stopped or crashes, between chunks or inside the row loop
\* (KeyboardInterrupt is no Exception: no handler of the loop catches it):
\* importar_tudo closes the connection without commit, or the process dies,
\* and the open transaction is rolled back.
\* History: ult.antes keeps the table as the stopped run last saw it.
Interromper ==
    /\ pc \in {"ocioso", "upsert"}
    /\ pc' = "parado"
    /\ empresa' = IF tabela = "empresa" THEN duravel ELSE empresa
    /\ estabelecimento' = IF tabela = "estabelecimento" THEN duravel ELSE estabelecimento
    /\ socio' = IF tabela = "socio" THEN duravel ELSE socio
    /\ df' = <<>>
    /\ ult' = [op |-> "nenhum", row |-> NenhumaLinha, antes |-> Tab(tabela),
               rep |-> FALSE]
    /\ UNCHANGED <<tabela, pasta_nome, inseridos, atualizados, lote, sem_dup,
                   duravel, inicio>>
    /\ UNCHANGED vars_run
    /\ UNCHANGED vars_ref
    /\ UNCHANGED vars_arq
    /\ UNCHANGED vars_tudo
    /\ UNCHANGED vars_duas

\* a new run on the same database file: conectar_db and criar_tabelas
\* (CREATE TABLE IF NOT EXISTS) keep the rows that are there; the counters and
\* the folder of the stopped run are gone with its process
Retomar ==
    /\ pc = "parado"
    /\ pc' = "ocioso"
    /\ ult' = [op |-> "nenhum", row |-> NenhumaLinha, antes |-> <<>>, rep |-> FALSE]
    /\ pasta_nome' = <<0, 0>>
    /\ inseridos' = 0
    /\ atualizados' = 0
    /\ UNCHANGED <<empresa, estabelecimento, socio, tabela, df, lote, sem_dup,
                   duravel, inicio>>
    /\ UNCHANGED vars_run
    /\ UNCHANGED vars_ref
    /\ UNCHANGED vars_arq
    /\ UNCHANGED vars_tudo
    /\ UNCHANGED vars_duas

Next == LerChunk \/ AplicarLinha \/ Commit \/ Interromper \/ Retomar

Spec == Init /\ [][Next]_vars

-----------------------------------------------------------------------------
(* The deduplicator alone, on every batch of at most MaxLote rows *)

\* rows of a chunk whose column count differs from the schema's: the columns
\* keep the names read_csv gave them (line 529)
LinhasSemRenomear == {[c0 |-> "1", c1 |-> x] : x \in {"A", "B"}}

LotesDe(t) ==
    UNION {[1..n -> LinhasDeChunk(t)] : n \in 0..MaxLote}

InitDedup ==
    /\ empresa = <<>>
    /\ estabelecimento = <<>>
    /\ socio = <<>>
    /\ tabela \in Tabelas
    /\ pasta_nome \in Pastas
    /\ df = <<>>
    /\ pc = "dedup"
    /\ inseridos = 0
    /\ atualizados = 0
    /\ ult = [op |-> "nenhum", row |-> NenhumaLinha, antes |-> <<>>, rep |-> FALSE]
    /\ \/ \E bruto \in LotesDe(tabela) :
             lote = PrepararChunk(tabela, bruto, pasta_nome)
       \/ \E n \in 1..MaxLote : lote \in [1..n -> LinhasSemRenomear]
    /\ sem_dup = <<>>
    /\ duravel = <<>>
    /\ inicio = <<>>
    /\ descobertos = <<>>
    /\ fila = <<>>
    /\ feitos = <<>>
    /\ avistados = {}
    /\ referencia = <<>>
    /\ arquivos_ref = <<>>
    /\ ref_antes = <<>>
    /\ restantes = 0
    /\ total_registros = 0
    /\ atualizacoes = 0
    /\ retorno = <<>>
    /\ alteradas = 0
    /\ falhou = FALSE
    /\ raiz_existe = TRUE
    /\ db_abre = TRUE
    /\ diretorio = <<>>
    /\ estrutura_completa = <<>>
    /\ tabelas_criadas = FALSE
    /\ tentados = <<>>
    /\ relatorio = FALSE
    /\ critico = FALSE
    /\ saida = -1
    /\ arquivos_ordenados = <<>>
    /\ rodada = 1
    /\ fim_primeira = <<>>

\* chunk = self._remover_duplicatas(tabela, chunk)
Deduplicar ==
    /\ pc = "dedup"
    /\ sem_dup' = _remover_duplicatas(tabela, lote)
    /\ pc' = "feito"
    /\ UNCHANGED <<empresa, estabelecimento, socio, tabela, pasta_nome, df,
                   inseridos, atualizados, ult, lote, duravel, inicio>>
    /\ UNCHANGED vars_run
    /\ UNCHANGED vars_ref
    /\ UNCHANGED vars_arq
    /\ UNCHANGED vars_tudo
    /\ UNCHANGED vars_duas

SpecDedup == InitDedup /\ [][Deduplicar]_vars

-----------------------------------------------------------------------------
(* A run over the files of one type: discovery, ordering and import, one    *)
(* file at a step.  A file holds at most one chunk besides its first line.  *)

\* the folders of the base directory that pass the YYYY-MM test (lines
\* 125-130), as the characters of their names
NomesPasta ==
    {<<"2", "0", "2", "3", "-", "0", "5">>,
     <<"2", "0", "2", "3", "-", "1", "1">>,
     <<"2", "0", "2", "4", "-", "0", "1">>}

\* x.parent.name[:4] and x.parent.name[5:7]
Ano(nome) == SubSeq(nome, 1, 4)
Mes(nome) == SubSeq(nome, 6, 7)

\* the period (year, month) a folder name denotes
PeriodoDe(nome) == <<ValorDigitos(Ano(nome)), ValorDigitos(Mes(nome))>>

\* code point of a character of a folder name
Ord(c) == IF c = "-" THEN 45 ELSE 48 + DigVal(c)

\* a < b on two strings
RECURSIVE StrMenor(_, _)
StrMenor(a, b) ==
    IF b = <<>> THEN FALSE
    ELSE IF a = <<>> THEN TRUE
    ELSE IF Ord(Head(a)) # Ord(Head(b)) THEN Ord(Head(a)) < Ord(Head(b))
    ELSE StrMenor(Tail(a), Tail(b))

\* faulty variant: the key is the month alone
MutChaveSoMes(a, b) == ~StrMenor(Mes(b), Mes(a))

\* key=lambda x: (x.parent.name[:4], x.parent.name[5:7]): key(a) <= key(b)
ChaveMenorOuIgual(a, b) ==
    \/ StrMenor(Ano(a), Ano(b))
    \/ Ano(a) = Ano(b) /\ ~StrMenor(Mes(b), Mes(a))

\* pastas_encontradas.sort(): ascending by name; the files of a folder follow
\* one another in estrutura_completa[tabela] (lines 164-171)
RECURSIVE sort(_)
sort(s) ==
    IF s = <<>> THEN <<>>
    ELSE LET r == sort(SubSeq(s, 1, Len(s) - 1))
             x == s[Len(s)]
             k == Cardinality({i \in DOMAIN r : ~StrMenor(x, r[i])})
         IN  SubSeq(r, 1, k) \o <<x>> \o SubSeq(r, k + 1, Len(r))

\* sorted(estrutura_completa[tabela], key=...): ascending by key, stable
RECURSIVE sorted(_)
sorted(s) ==
    IF s = <<>> THEN <<>>
    ELSE LET r == sorted(SubSeq(s, 1, Len(s) - 1))
             x == s[Len(s)]
             k == Cardinality({i \in DOMAIN r : ChaveMenorOuIgual(r[i], x)})
         IN  SubSeq(r, 1, k) \o <<x>> \o SubSeq(r, k + 1, Len(r))

\* pd.read_csv without header=None: the first line of the file names the
\* columns and the lines after it are the rows
read_csv(linhas) == Tail(linhas)

\* the lines the files of a run are made of: a sighting with data, a later
\* sighting with other data, and one more line
LinhasDeArquivo(t) ==
    CASE t = "empresa" ->
           {l \in LinhasBrutas(t) :
              /\ l.cnpj_basico = "1"
              /\ \/ l.razao_social = "A" /\ l.natureza_juridica = ""
                    /\ l.capital_social = <<>> /\ l.porte_empresa = ""
                 \/ l.razao_social = "" /\ l.natureza_juridica = "N"
                    /\ l.capital_social = <<>> /\ l.porte_empresa = "P"
                 \/ l.razao_social = "" /\ l.natureza_juridica = ""
                    /\ l.capital_social = <<>> /\ l.porte_empresa = ""}
      [] t = "estabelecimento" ->
           {l \in LinhasBrutas(t) :
              /\ l.cnpj_ordem = "0001"
              /\ \/ l.nome_fantasia = "F" /\ l.telefone1 = ""
                 \/ l.nome_fantasia = "" /\ l.telefone1 = "T"
                 \/ l.nome_fantasia = "" /\ l.telefone1 = ""}
      [] t = "socio" ->
           {l \in LinhasBrutas(t) :
              /\ l.cpf_cnpj_socio = "111"
              /\ \/ l.nome_socio_razao_social = "ANA" /\ l.qualificacao_socio \in {"", "Q"}
                 \/ l.nome_socio_razao_social = "BIA"}

\* a file: its first line and at most one chunk of rows
ConteudosArquivo(t) ==
    UNION {[1..n -> LinhasDeArquivo(t)] : n \in 1..(MaxChunk + 1)}

InitRun ==
    /\ empresa = <<>>
    /\ estabelecimento = <<>>
    /\ socio = <<>>
    /\ tabela \in Tabelas
    /\ pasta_nome = <<0, 0>>
    /\ df = <<>>
    /\ pc = "run"
    /\ inseridos = 0
    /\ atualizados = 0
    /\ ult = [op |-> "nenhum", row |-> NenhumaLinha, antes |-> <<>>, rep |-> FALSE]
    /\ lote = <<>>
    /\ sem_dup = <<>>
    /\ duravel = <<>>
    /\ inicio = <<>>
    /\ descobertos \in UNION {[1..n -> NomesPasta] : n \in 1..MaxArquivos}
    /\ fila = sorted(sort(descobertos))
    /\ feitos = <<>>
    /\ avistados = {}
    /\ referencia = <<>>
    /\ arquivos_ref = <<>>
    /\ ref_antes = <<>>
    /\ restantes = 0
    /\ total_registros = 0
    /\ atualizacoes = 0
    /\ retorno = <<>>
    /\ alteradas = 0
    /\ falhou = FALSE
    /\ raiz_existe = TRUE
    /\ db_abre = TRUE
    /\ diretorio = <<>>
    /\ estrutura_completa = <<>>
    /\ tabelas_criadas = FALSE
    /\ tentados = <<>>
    /\ relatorio = FALSE
    /\ critico = FALSE
    /\ saida = -1
    /\ arquivos_ordenados = <<>>
    /\ rodada = 1
    /\ fim_primeira = <<>>

\* importar_dados_principais, one iteration of "for arquivo in
\* arquivos_ordenados": _importar_arquivo_principal reads the file, cleans,
\* stamps, converts and deduplicates its chunk, applies it and commits.
\* History: feitos and avistados record the period and the lines of the file.
ImportarArquivo ==
    /\ pc = "run"
    /\ fila # <<>>
    /\ \E linhas \in ConteudosArquivo(tabela) :
          LET periodo == PeriodoDe(Head(fila))
              chunk == _remover_duplicatas(tabela,
                           PrepararChunk(tabela, read_csv(linhas), periodo))
              nova == UpsertTodas(tabela, Tab(tabela), chunk)
          IN  /\ empresa' = IF tabela = "empresa" THEN nova ELSE empresa
              /\ estabelecimento' =
                    IF tabela = "estabelecimento" THEN nova ELSE estabelecimento
              /\ socio' = IF tabela = "socio" THEN nova ELSE socio
              /\ duravel' = nova
              /\ inicio' = nova
              /\ pasta_nome' = periodo
              /\ avistados' = avistados \cup
                    {PrepararLinha(tabela, linhas[i], periodo) : i \in DOMAIN linhas}
    /\ feitos' = Append(feitos, PeriodoDe(Head(fila)))
    /\ fila' = Tail(fila)
    /\ pc' = IF Tail(fila) = <<>> THEN "fim" ELSE "run"
    /\ UNCHANGED <<tabela, df, inseridos, atualizados, ult, lote, sem_dup,
                   descobertos>>
    /\ UNCHANGED vars_ref
    /\ UNCHANGED vars_arq
    /\ UNCHANGED vars_tudo
    /\ UNCHANGED vars_duas

\* the same iteration when the file cannot be read: the exception is caught
\* (lines 485-486, 569-571) and the loop goes on with the next file
ArquivoIlegivel ==
    /\ pc = "run"
    /\ fila # <<>>
    /\ pasta_nome' = PeriodoDe(Head(fila))
    /\ feitos' = Append(feitos, PeriodoDe(Head(fila)))
    /\ fila' = Tail(fila)
    /\ pc' = IF Tail(fila) = <<>> THEN "fim" ELSE "run"
    /\ UNCHANGED <<empresa, estabelecimento, socio, tabela, df, inseridos,
                   atualizados, ult, lote, sem_dup, duravel, inicio,
                   descobertos, avistados>>
    /\ UNCHANGED vars_ref
    /\ UNCHANGED vars_arq
    /\ UNCHANGED vars_tudo
    /\ UNCHANGED vars_duas

NextRun == ImportarArquivo \/ ArquivoIlegivel

SpecRun == InitRun /\ [][NextRun]_vars

-----------------------------------------------------------------------------
(* The reference table loader: importar_tabelas_referencia, for the table   *)
(* cnae.  The database file outlives a run, so the table starts empty or    *)
(* with the rows of an earlier load.                                        *)

\* the lines a file of the reference table can hold
LinhasReferencia ==
    {[codigo |-> "1", descricao |-> "A"],
     [codigo |-> "1", descricao |-> "B"],
     [codigo |-> "2", descricao |-> "C"]}

\* a row left in the table by an earlier load
LinhaAntiga == [codigo |-> "9", descricao |-> "Z"]

\* a reference file: no line (an empty file) up to MaxLinhas lines
ConteudosReferencia ==
    UNION {[1..n -> LinhasReferencia] : n \in 0..MaxLinhas}

\* the folders that hold a file of the table, each once, in the order found
PastasComArquivo ==
    {s \in UNION {[1..n -> NomesPasta] : n \in 1..MaxArquivos} :
        \A i, j \in DOMAIN s : s[i] = s[j] => i = j}

\* escanear_estrutura_completa: the files of the type, folder after folder in
\* the order of encontrar_todas_pastas (sorted by name)
InitRef ==
    /\ empresa = <<>>
    /\ estabelecimento = <<>>
    /\ socio = <<>>
    /\ tabela = "cnae"
    /\ pasta_nome = <<0, 0>>
    /\ df = <<>>
    /\ pc = "ref"
    /\ inseridos = 0
    /\ atualizados = 0
    /\ ult = [op |-> "nenhum", row |-> NenhumaLinha, antes |-> <<>>, rep |-> FALSE]
    /\ lote = <<>>
    /\ sem_dup = <<>>
    /\ duravel = <<>>
    /\ inicio = <<>>
    /\ descobertos \in PastasComArquivo
    /\ fila = <<>>
    /\ feitos = <<>>
    /\ avistados = {}
    /\ referencia \in {<<>>, <<LinhaAntiga>>}
    /\ \E conteudo \in [DOMAIN descobertos -> ConteudosReferencia] :
          arquivos_ref = [i \in DOMAIN descobertos |->
                             [pasta |-> sort(descobertos)[i],
                              linhas |-> conteudo[i]]]
    /\ ref_antes = referencia
    /\ restantes = 0
    /\ total_registros = 0
    /\ atualizacoes = 0
    /\ retorno = <<>>
    /\ alteradas = 0
    /\ falhou = FALSE
    /\ raiz_existe = TRUE
    /\ db_abre = TRUE
    /\ diretorio = <<>>
    /\ estrutura_completa = <<>>
    /\ tabelas_criadas = FALSE
    /\ tentados = <<>>
    /\ relatorio = FALSE
    /\ critico = FALSE
    /\ saida = -1
    /\ arquivos_ordenados = <<>>
    /\ rodada = 1
    /\ fim_primeira = <<>>

\* importar_tabelas_referencia, the iteration of the table: the first file of
\* the list is read, its rows are deduplicated over all columns and
\* to_sql(if_exists='replace') puts them in place of the table
ImportarReferencia ==
    /\ pc = "ref"
    /\ arquivos_ref # <<>>
    /\ arquivos_ref[1].linhas # <<>>
    /\ LET arquivo_ref == arquivos_ref[1]
           lidas == read_csv(arquivo_ref.linhas)
       IN  referencia' = drop_duplicates(lidas, DOMAIN LinhaAntiga)
    /\ ref_antes' = referencia
    /\ pc' = "ref_ok"
    /\ UNCHANGED <<empresa, estabelecimento, socio, tabela, pasta_nome, df,
                   inseridos, atualizados, ult, lote, sem_dup, duravel, inicio,
                   arquivos_ref>>
    /\ UNCHANGED vars_run
    /\ UNCHANGED vars_arq
    /\ UNCHANGED vars_tudo
    /\ UNCHANGED vars_duas

\* the same iteration when read_csv raises (an empty or unreadable file): the
\* exception is caught and the table stays as it was
ReferenciaIlegivel ==
    /\ pc = "ref"
    /\ arquivos_ref # <<>>
    /\ ref_antes' = referencia
    /\ pc' = "ref_erro"
    /\ UNCHANGED <<empresa, estabelecimento, socio, tabela, pasta_nome, df,
                   inseridos, atualizados, ult, lote, sem_dup, duravel, inicio,
                   referencia, arquivos_ref>>
    /\ UNCHANGED vars_run
    /\ UNCHANGED vars_arq
    /\ UNCHANGED vars_tudo
    /\ UNCHANGED vars_duas

NextRef == ImportarReferencia \/ ReferenciaIlegivel

SpecRef == InitRef /\ [][NextRef]_vars

-----------------------------------------------------------------------------
(* One file and the failures of its chunks: _importar_arquivo_principal     *)
(* with a commit that can raise (database locked, disk full) and a reader   *)
(* that can raise between chunks.                                           *)

\* chunks a file is read in, at most
MaxPedacos == 2

\* the row loop of _upsert_chunk_inteligente over the chunk d: the table and
\* the two counters it holds when it reaches self.conn.commit()
RECURSIVE _upsert_chunk_inteligente(_, _, _)
_upsert_chunk_inteligente(t, tab, d) ==
    IF d = <<>> THEN [tab |-> tab, inseridos |-> 0, atualizados |-> 0]
    ELSE LET r == UpsertLinha(t, tab, Head(d))
             s == _upsert_chunk_inteligente(t, r.tab, Tail(d))
         IN  [tab |-> s.tab,
              inseridos |-> s.inseridos + (IF r.op = "inserido" THEN 1 ELSE 0),
              atualizados |-> s.atualizados + (IF r.op = "atualizado" THEN 1 ELSE 0)]

\* the rows of a chunk of the file, after the line read_csv took as header
PedacosBrutos(t) == UNION {[1..n -> LinhasDeArquivo(t)] : n \in 1..MaxChunk}

\* the chunks left to read once the fallback has returned: the loop goes on
\* with the next chunk
AposFallback(n) == n - 1

\* the file is opened on a database an earlier file may have written to.
\* History: inicio is the table when the file is opened.
InitArquivo ==
    /\ tabela \in Tabelas
    /\ \E antes \in {<<>>} \cup {<<Registro(tabela, PrepararLinha(tabela, l, <<2023, 5>>))>> :
                                    l \in {x \in LinhasDeArquivo(tabela) :
                                             PodeInserir(tabela, PrepararLinha(tabela, x, <<2023, 5>>))}} :
          /\ empresa = IF tabela = "empresa" THEN antes ELSE <<>>
          /\ estabelecimento = IF tabela = "estabelecimento" THEN antes ELSE <<>>
          /\ socio = IF tabela = "socio" THEN antes ELSE <<>>
          /\ duravel = antes
          /\ inicio = antes
    /\ pasta_nome = <<2024, 1>>
    /\ df = <<>>
    /\ pc = "arquivo"
    /\ inseridos = 0
    /\ atualizados = 0
    /\ ult = [op |-> "nenhum", row |-> NenhumaLinha, antes |-> <<>>, rep |-> FALSE]
    /\ lote = <<>>
    /\ sem_dup = <<>>
    /\ descobertos = <<>>
    /\ fila = <<>>
    /\ feitos = <<>>
    /\ avistados = {}
    /\ referencia = <<>>
    /\ arquivos_ref = <<>>
    /\ ref_antes = <<>>
    /\ restantes \in 1..MaxPedacos
    /\ total_registros = 0
    /\ atualizacoes = 0
    /\ retorno = <<>>
    /\ alteradas = 0
    /\ falhou = FALSE
    /\ raiz_existe = TRUE
    /\ db_abre = TRUE
    /\ diretorio = <<>>
    /\ estrutura_completa = <<>>
    /\ tabelas_criadas = FALSE
    /\ tentados = <<>>
    /\ relatorio = FALSE
    /\ critico = FALSE
    /\ saida = -1
    /\ arquivos_ordenados = <<>>
    /\ rodada = 1
    /\ fim_primeira = <<>>

\* the table of the file's type becomes tab
Guardar(tab) ==
    /\ empresa' = IF tabela = "empresa" THEN tab ELSE empresa
    /\ estabelecimento' = IF tabela = "estabelecimento" THEN tab ELSE estabelecimento
    /\ socio' = IF tabela = "socio" THEN tab ELSE socio

\* one chunk of the file, lines 515-558: prepared, deduplicated and applied by
\* _upsert_chunk_inteligente, whose commit succeeds; its counts are added to
\* the totals of the file
ChunkAplicado ==
    /\ pc = "arquivo"
    /\ restantes > 0
    /\ \E bruto \in PedacosBrutos(tabela) :
          LET chunk == _remover_duplicatas(tabela,
                           PrepararChunk(tabela, bruto, pasta_nome))
              r == _upsert_chunk_inteligente(tabela, Tab(tabela), chunk)
          IN  /\ Guardar(r.tab)
              /\ duravel' = r.tab
              /\ inseridos' = r.inseridos
              /\ atualizados' = r.atualizados
              /\ total_registros' = total_registros + r.inseridos
              /\ atualizacoes' = atualizacoes + r.atualizados
              /\ alteradas' = alteradas + r.atualizados
    /\ restantes' = restantes - 1
    /\ UNCHANGED <<tabela, pasta_nome, df, pc, ult, lote, sem_dup, inicio,
                   retorno, falhou>>
    /\ UNCHANGED vars_run
    /\ UNCHANGED vars_ref
    /\ UNCHANGED vars_tudo
    /\ UNCHANGED vars_duas

\* the same chunk when self.conn.commit() (line 785) raises: the rows stay
\* applied in the open transaction, the counts of the call are lost with it
\* and the handler of lines 560-561 takes the chunk
ChunkCommitFalha ==
    /\ pc = "arquivo"
    /\ restantes > 0
    /\ \E bruto \in PedacosBrutos(tabela) :
          LET chunk == _remover_duplicatas(tabela,
                           PrepararChunk(tabela, bruto, pasta_nome))
              r == _upsert_chunk_inteligente(tabela, Tab(tabela), chunk)
          IN  /\ Guardar(r.tab)
              /\ df' = chunk
              /\ inseridos' = r.inseridos
              /\ atualizados' = r.atualizados
              /\ alteradas' = alteradas + r.atualizados
    /\ pc' = "fallback"
    /\ falhou' = TRUE
    /\ UNCHANGED <<tabela, pasta_nome, ult, lote, sem_dup, duravel, inicio,
                   restantes, total_registros, atualizacoes, retorno>>
    /\ UNCHANGED vars_run
    /\ UNCHANGED vars_ref
    /\ UNCHANGED vars_tudo
    /\ UNCHANGED vars_duas

\* the handler, lines 562-565: _inserir_chunk_linha_por_linha_upsert calls
\* _upsert_chunk_inteligente on the same chunk again, and this time the
\* commit succeeds
Fallback ==
    /\ pc = "fallback"
    /\ LET r == _upsert_chunk_inteligente(tabela, Tab(tabela), df)
       IN  /\ Guardar(r.tab)
           /\ duravel' = r.tab
           /\ inseridos' = r.inseridos
           /\ atualizados' = r.atualizados
           /\ total_registros' = total_registros + r.inseridos
           /\ atualizacoes' = atualizacoes + r.atualizados
           /\ alteradas' = alteradas + r.atualizados
    /\ df' = <<>>
    /\ restantes' = AposFallback(restantes)
    /\ pc' = "arquivo"
    /\ UNCHANGED <<tabela, pasta_nome, ult, lote, sem_dup, inicio, retorno, falhou>>
    /\ UNCHANGED vars_run
    /\ UNCHANGED vars_ref
    /\ UNCHANGED vars_tudo
    /\ UNCHANGED vars_duas

\* the handler when the commit raises again: the exception leaves the chunk
\* loop for the handler of lines 569-571, which returns 0, 0
FallbackFalha ==
    /\ pc = "fallback"
    /\ LET r == _upsert_chunk_inteligente(tabela, Tab(tabela), df)
       IN  /\ Guardar(r.tab)
           /\ inseridos' = r.inseridos
           /\ atualizados' = r.atualizados
           /\ alteradas' = alteradas + r.atualizados
    /\ df' = <<>>
    /\ retorno' = <<0, 0>>
    /\ pc' = "fim_arquivo"
    /\ UNCHANGED <<tabela, pasta_nome, ult, lote, sem_dup, duravel, inicio,
                   restantes, total_registros, atualizacoes, falhou>>
    /\ UNCHANGED vars_run
    /\ UNCHANGED vars_ref
    /\ UNCHANGED vars_tudo
    /\ UNCHANGED vars_duas

\* read_csv raises, at the opening of the file or between two chunks: the
\* handler of lines 569-571 returns 0, 0
LeituraFalha ==
    /\ pc = "arquivo"
    /\ restantes > 0
    /\ retorno' = <<0, 0>>
    /\ pc' = "fim_arquivo"
    /\ UNCHANGED <<empresa, estabelecimento, socio, tabela, pasta_nome, df,
                   inseridos, atualizados, ult, lote, sem_dup, duravel, inicio,
                   restantes, total_registros, atualizacoes, alteradas, falhou>>
    /\ UNCHANGED vars_run
    /\ UNCHANGED vars_ref
    /\ UNCHANGED vars_tudo
    /\ UNCHANGED vars_duas

\* the iterator is exhausted, line 567
FimArquivo ==
    /\ pc = "arquivo"
    /\ restantes = 0
    /\ retorno' = <<total_registros, atualizacoes>>
    /\ pc' = "fim_arquivo"
    /\ UNCHANGED <<empresa, estabelecimento, socio, tabela, pasta_nome, df,
                   inseridos, atualizados, ult, lote, sem_dup, duravel, inicio,
                   restantes, total_registros, atualizacoes, alteradas, falhou>>
    /\ UNCHANGED vars_run
    /\ UNCHANGED vars_ref
    /\ UNCHANGED vars_tudo
    /\ UNCHANGED vars_duas

NextArquivo ==
    \/ ChunkAplicado
    \/ ChunkCommitFalha
    \/ Fallback
    \/ FallbackFalha
    \/ LeituraFalha
    \/ FimArquivo

SpecArquivo == InitArquivo /\ [][NextArquivo]_vars

-----------------------------------------------------------------------------
(* The whole run: the __main__ block and importar_tudo.  The import of a    *)
(* file is one step here, which succeeds or raises; what it writes is the   *)
(* matter of the specifications above.                                      *)

\* the entries the root directory can hold: two period folders, a folder
\* whose month is no month and a folder whose name has six characters
NomesDiretorio ==
    {<<"2", "0", "2", "3", "-", "0", "5">>,
     <<"2", "0", "2", "4", "-", "0", "1">>,
     <<"2", "0", "2", "3", "-", "1", "3">>,
     <<"2", "0", "2", "3", "-", "5">>}

\* the types of the files the folders of the model hold
TiposArquivo == {"empresa", "socio", "cnae"}

tabelas_principais == <<"empresa", "estabelecimento", "socio">>

\* str.isdigit()
isdigit(s) == s # <<>> /\ \A i \in DOMAIN s : s[i] \in Digitos

\* the test of lines 127-130 on the name of a directory
EhPastaDeDados(nome_pasta) ==
    /\ Len(nome_pasta) = 7
    /\ nome_pasta[5] = "-"
    /\ isdigit(SubSeq(nome_pasta, 1, 4))
    /\ isdigit(SubSeq(nome_pasta, 6, Len(nome_pasta)))

\* self.diretorio_base.glob("*"): the entries, in some order
glob(dir) ==
    CHOOSE s \in [1..Cardinality(DOMAIN dir) -> DOMAIN dir] :
        \A i, j \in DOMAIN s : s[i] = s[j] => i = j

\* encontrar_todas_pastas
encontrar_todas_pastas(dir) ==
    sort(SelectSeq(glob(dir), EhPastaDeDados))

\* escanear_estrutura_completa: for every type, the folders that hold a file
\* of the type, in the order of encontrar_todas_pastas
escanear_estrutura_completa(dir) ==
    LET pastas == encontrar_todas_pastas(dir)
        tipos == UNION {dir[pastas[i]] : i \in DOMAIN pastas}
    IN  [t \in tipos |-> SelectSeq(pastas, LAMBDA n : t \in dir[n])]

\* arquivos_ordenados of a type, empty when the type has no file
Arquivos(t) ==
    IF t \in DOMAIN estrutura_completa THEN sorted(estrutura_completa[t]) ELSE <<>>

\* faulty variant: a file that fails ends the loop of its type
MutAposFalha(f) == <<>>

\* the files left once the handler of lines 485-486 (or 569-571) has taken
\* the exception of a file: the loop goes on with the next file
AposFalha(f) == Tail(f)

\* the variables of the other specifications
vars_dados == <<empresa, estabelecimento, socio, pasta_nome, df, inseridos,
                atualizados, ult, lote, sem_dup, duravel, inicio, descobertos,
                feitos, avistados>>

InitTudo ==
    /\ empresa = <<>>
    /\ estabelecimento = <<>>
    /\ socio = <<>>
    /\ tabela = "empresa"
    /\ pasta_nome = <<0, 0>>
    /\ df = <<>>
    /\ pc = "main"
    /\ inseridos = 0
    /\ atualizados = 0
    /\ ult = [op |-> "nenhum", row |-> NenhumaLinha, antes |-> <<>>, rep |-> FALSE]
    /\ lote = <<>>
    /\ sem_dup = <<>>
    /\ duravel = <<>>
    /\ inicio = <<>>
    /\ descobertos = <<>>
    /\ fila = <<>>
    /\ feitos = <<>>
    /\ avistados = {}
    /\ referencia = <<>>
    /\ arquivos_ref = <<>>
    /\ ref_antes = <<>>
    /\ restantes = 0
    /\ total_registros = 0
    /\ atualizacoes = 0
    /\ retorno = <<>>
    /\ alteradas = 0
    /\ falhou = FALSE
    /\ raiz_existe \in BOOLEAN
    /\ db_abre \in BOOLEAN
    /\ diretorio \in UNION {[D -> SUBSET TiposArquivo] : D \in SUBSET NomesDiretorio}
    /\ ~raiz_existe => DOMAIN diretorio = {}
    /\ \A n \in DOMAIN diretorio : ~EhPastaDeDados(n) => diretorio[n] = {}
    /\ estrutura_completa = <<>>
    /\ tabelas_criadas = FALSE
    /\ tentados = <<>>
    /\ relatorio = FALSE
    /\ critico = FALSE
    /\ saida = -1
    /\ arquivos_ordenados = <<>>
    /\ rodada = 1
    /\ fim_primeira = <<>>

\* __main__, lines 969-983: the root directory is missing, exit(1)
RaizAusente ==
    /\ pc = "main"
    /\ ~raiz_existe
    /\ saida' = 1
    /\ pc' = "terminado"
    /\ UNCHANGED <<tabela, fila, raiz_existe, db_abre, diretorio,
                   estrutura_completa, tabelas_criadas, tentados, relatorio,
                   critico>>
    /\ UNCHANGED <<vars_dados, vars_ref, vars_arq, vars_duas>>

\* importar_tudo, line 911: conectar_db succeeds
Conectar ==
    /\ pc = "main"
    /\ raiz_existe
    /\ db_abre
    /\ pc' = "escanear"
    /\ UNCHANGED <<tabela, fila, raiz_existe, db_abre, diretorio,
                   estrutura_completa, tabelas_criadas, tentados, relatorio,
                   critico, saida>>
    /\ UNCHANGED <<vars_dados, vars_ref, vars_arq, vars_duas>>

\* conectar_db raises: the handler of lines 935-937 raises it again, the
\* __main__ block catches it (line 995), prints, and the script ends
ConectarFalha ==
    /\ pc = "main"
    /\ raiz_existe
    /\ ~db_abre
    /\ critico' = TRUE
    /\ saida' = 0
    /\ pc' = "terminado"
    /\ UNCHANGED <<tabela, fila, raiz_existe, db_abre, diretorio,
                   estrutura_completa, tabelas_criadas, tentados, relatorio>>
    /\ UNCHANGED <<vars_dados, vars_ref, vars_arq, vars_duas>>

\* lines 914-918: the scan, and the return when it found nothing
Escanear ==
    /\ pc = "escanear"
    /\ estrutura_completa' = escanear_estrutura_completa(diretorio)
    /\ IF DOMAIN estrutura_completa' = {}
       THEN /\ pc' = "terminado"
            /\ saida' = 0
       ELSE /\ pc' = "criar_tabelas"
            /\ saida' = saida
    /\ UNCHANGED <<tabela, fila, raiz_existe, db_abre, diretorio,
                   tabelas_criadas, tentados, relatorio, critico>>
    /\ UNCHANGED <<vars_dados, vars_ref, vars_arq, vars_duas>>

\* lines 921-924: criar_tabelas, then importar_tabelas_referencia, whose
\* failures are caught and printed (lines 291-292, 437-438)
CriarTabelas ==
    /\ pc = "criar_tabelas"
    /\ tabelas_criadas' = TRUE
    /\ pc' = "principais"
    /\ tabela' = tabelas_principais[1]
    /\ fila' = Arquivos(tabelas_principais[1])
    /\ UNCHANGED <<raiz_existe, db_abre, diretorio, estrutura_completa,
                   tentados, relatorio, critico, saida>>
    /\ UNCHANGED <<vars_dados, vars_ref, vars_arq, vars_duas>>

\* importar_dados_principais, one iteration of the file loop: the file is
\* imported
ImportarPrincipal ==
    /\ pc = "principais"
    /\ fila # <<>>
    /\ tentados' = Append(tentados, [tabela |-> tabela, pasta |-> Head(fila),
                                     ok |-> TRUE])
    /\ fila' = Tail(fila)
    /\ UNCHANGED <<tabela, pc, raiz_existe, db_abre, diretorio,
                   estrutura_completa, tabelas_criadas, relatorio, critico, saida>>
    /\ UNCHANGED <<vars_dados, vars_ref, vars_arq, vars_duas>>

\* the same iteration when the file cannot be read or its processing raises
FalhaPrincipal ==
    /\ pc = "principais"
    /\ fila # <<>>
    /\ tentados' = Append(tentados, [tabela |-> tabela, pasta |-> Head(fila),
                                     ok |-> FALSE])
    /\ fila' = AposFalha(fila)
    /\ UNCHANGED <<tabela, pc, raiz_existe, db_abre, diretorio,
                   estrutura_completa, tabelas_criadas, relatorio, critico, saida>>
    /\ UNCHANGED <<vars_dados, vars_ref, vars_arq, vars_duas>>

\* the position of a type in tabelas_principais
Posicao(t) == CHOOSE i \in DOMAIN tabelas_principais : tabelas_principais[i] = t

\* "for tabela in tabelas_principais": the next type, and after the last one
\* the return to importar_tudo
ProximaTabela ==
    /\ pc = "principais"
    /\ fila = <<>>
    /\ IF Posicao(tabela) < Len(tabelas_principais)
       THEN /\ tabela' = tabelas_principais[Posicao(tabela) + 1]
            /\ fila' = Arquivos(tabelas_principais[Posicao(tabela) + 1])
            /\ pc' = pc
       ELSE /\ tabela' = tabela
            /\ fila' = fila
            /\ pc' = "indices"
    /\ UNCHANGED <<raiz_existe, db_abre, diretorio, estrutura_completa,
                   tabelas_criadas, tentados, relatorio, critico, saida>>
    /\ UNCHANGED <<vars_dados, vars_ref, vars_arq, vars_duas>>

\* criar_indices (the failure of a statement is caught, lines 859-860) and
\* mostrar_estatisticas, lines 930-933; the script ends with status 0
IndicesEEstatisticas ==
    /\ pc = "indices"
    /\ relatorio' = TRUE
    /\ saida' = 0
    /\ pc' = "terminado"
    /\ UNCHANGED <<tabela, fila, raiz_existe, db_abre, diretorio,
                   estrutura_completa, tabelas_criadas, tentados, critico>>
    /\ UNCHANGED <<vars_dados, vars_ref, vars_arq, vars_duas>>

\* the commit of criar_indices (line 862) raises: the handler of lines
\* 935-937 raises it again and the __main__ block catches it
IndicesFalha ==
    /\ pc = "indices"
    /\ critico' = TRUE
    /\ saida' = 0
    /\ pc' = "terminado"
    /\ UNCHANGED <<tabela, fila, raiz_existe, db_abre, diretorio,
                   estrutura_completa, tabelas_criadas, tentados, relatorio>>
    /\ UNCHANGED <<vars_dados, vars_ref, vars_arq, vars_duas>>

NextTudo ==
    \/ RaizAusente
    \/ Conectar
    \/ ConectarFalha
    \/ Escanear
    \/ CriarTabelas
    \/ ImportarPrincipal
    \/ FalhaPrincipal
    \/ ProximaTabela
    \/ IndicesEEstatisticas
    \/ IndicesFalha

SpecTudo == InitTudo /\ [][NextTudo]_vars

\* the runs over a root of at most two folders, each folder empty or with
\* the files of two entity types
InitTudoJusto ==
    /\ InitTudo
    /\ Cardinality(DOMAIN diretorio) <= 2
    /\ \A n \in DOMAIN diretorio : diretorio[n] \in {{}, {"empresa", "socio"}}

\* the interpreter always takes the next step of the script
SpecTudoJusto == InitTudoJusto /\ [][NextTudo]_vars /\ WF_vars(NextTudo)

-----------------------------------------------------------------------------
(* Vocabulary of the properties *)

TabAtual == Tab(tabela)

\* the state right after a row application: ult.antes is the table before it,
\* ult.row the row, ult.op what the iteration counted
Aplicou == ult.op # "nenhum"

ChaveDe(t, r) == [c \in chave(t) |-> r[c]]

\* the mergeable columns of a table: all but the key
Mergeaveis(t) == estrutura_colunas(t) \ chave(t)
MergeaveisTexto(t) == Mergeaveis(t) \ {"capital_social"}

\* blank: null or empty (a blank capital is read as zero)
Vazio(v) == v = None \/ v = ""
VazioEntrada(F, v) == IF F = "capital_social" THEN v = 0 ELSE Vazio(v)
NaoVazioGuardado(F, v) == IF F = "capital_social" THEN TRUE ELSE ~Vazio(v)

\* the stored records the lookup of the row finds
Achados == {i \in DOMAIN ult.antes : ExisteReg(tabela, ult.antes[i], ult.row)}

\* p is an earlier period than q
PeriodoMenor(p, q) == p[1] < q[1] \/ (p[1] = q[1] /\ p[2] < q[2])

\* the period of a line of a file, read off the stamp the line was given
PeriodoDaLinha(v) == <<v.data_atualizacao[1], v.data_atualizacao[2]>>

\* the line supplies data: some field besides the key is not blank
ForneceDados(t, v) == \E F \in Mergeaveis(t) : ~VazioEntrada(F, v[F])

\* the Company update takes effect: the stored legal name or legal-nature code
\* is blank, or the record carries a stamp earlier than the incoming period
GuardaEmpresa(reg, row) ==
    \/ Vazio(reg.razao_social)
    \/ Vazio(reg.natureza_juridica)
    \/ /\ reg.data_atualizacao # SemData
       /\ \/ reg.data_atualizacao[1] < row.data_atualizacao[1]
          \/ /\ reg.data_atualizacao[1] = row.data_atualizacao[1]
             /\ reg.data_atualizacao[2] < row.data_atualizacao[2]

-----------------------------------------------------------------------------
(* C1: every table holds at most one record per natural key, in every       *)
(* reachable state.                                                         *)
C1_ChaveUnica ==
    \A t \in Tabelas :
        \A i, j \in DOMAIN Tab(t) :
            i # j => ChaveDe(t, Tab(t)[i]) # ChaveDe(t, Tab(t)[j])

(* C2: non-regression.  After a row application, a stored field that was    *)
(* non-blank and whose incoming value is blank is unchanged, for every      *)
(* stored record and every mergeable field.                                 *)
C2_NaoRegride ==
    Aplicou =>
        \A i \in DOMAIN ult.antes : \A F \in Mergeaveis(tabela) :
            NaoVazioGuardado(F, ult.antes[i][F]) /\ VazioEntrada(F, ult.row[F])
                => TabAtual[i][F] = ult.antes[i][F]

\* an update that changed the record and kept a non-blank text field whose
\* incoming value was blank
C2_Witness ==
    /\ Aplicou
    /\ ult.op = "atualizado"
    /\ \E i \in Achados :
          /\ TabAtual[i] # ult.antes[i]
          /\ \E F \in MergeaveisTexto(tabela) :
                /\ ~Vazio(ult.antes[i][F])
                /\ Vazio(ult.row[F])
                /\ TabAtual[i][F] = ult.antes[i][F]

C4_CapitalNaoZera ==
    Aplicou /\ tabela = "empresa" =>
        \A i \in DOMAIN ult.antes :
            ult.antes[i].capital_social # 0 /\ ult.row.capital_social = 0
                => TabAtual[i].capital_social = ult.antes[i].capital_social

\* an update that changed the record, by a row without capital, of a record
\* whose capital is not zero
C4_Witness ==
    /\ Aplicou
    /\ tabela = "empresa"
    /\ ult.op = "atualizado"
    /\ \E i \in Achados :
          /\ ult.antes[i].capital_social # 0
          /\ ult.row.capital_social = 0
          /\ \E F \in MergeaveisTexto(tabela) : TabAtual[i][F] # ult.antes[i][F]

C6_SemRazaoNaoInsere ==
    Aplicou /\ tabela = "empresa"
    /\ (Vazio(ult.row.razao_social) \/ ult.row.razao_social \in Brancos)
    /\ (\A i \in DOMAIN ult.antes :
            ChaveDe(tabela, ult.antes[i]) # ChaveDe(tabela, ult.row))
    => /\ ult.op = "ignorado"
       /\ TabAtual = ult.antes
       /\ \A i \in DOMAIN TabAtual :
             ChaveDe(tabela, TabAtual[i]) # ChaveDe(tabela, ult.row)

\* a row without legal name but with other data, applied to a table that
\* holds another record and not its key
C6_Witness ==
    /\ Aplicou
    /\ tabela = "empresa"
    /\ Vazio(ult.row.razao_social)
    /\ ~Vazio(ult.row.natureza_juridica)
    /\ ult.row.capital_social # 0
    /\ ult.antes # <<>>
    /\ \A i \in DOMAIN ult.antes :
          ChaveDe(tabela, ult.antes[i]) # ChaveDe(tabela, ult.row)

C8_IdempotenciaEstado == Aplicou /\ ult.rep => TabAtual = ult.antes

(* C9: idempotence of reporting.  The second of two successive applications *)
(* of the same row counts neither an insert nor an update.                  *)
C9_SegundaNaoConta == Aplicou /\ ult.rep => inseridos = 0 /\ atualizados = 0

(* C10: given a batch that carries the key columns, the deduplicator        *)
(* returns rows of the batch, one for each distinct natural key of the      *)
(* batch and no two with the same key; an empty batch yields an empty one.  *)
C10_UmaPorChave ==
    pc = "feito" =>
        /\ lote = <<>> => sem_dup = <<>>
        /\ chave(tabela) \subseteq Colunas(lote) =>
              /\ \A i, j \in DOMAIN sem_dup :
                    i # j => ChaveDe(tabela, sem_dup[i]) # ChaveDe(tabela, sem_dup[j])
              /\ {ChaveDe(tabela, sem_dup[i]) : i \in DOMAIN sem_dup}
                    = {ChaveDe(tabela, lote[i]) : i \in DOMAIN lote}
              /\ \A i \in DOMAIN sem_dup : \E j \in DOMAIN lote : sem_dup[i] = lote[j]

\* a batch of three rows over two keys, the repeated key not adjacent
C10_Witness ==
    /\ pc = "feito"
    /\ chave(tabela) \subseteq Colunas(lote)
    /\ Len(lote) = 3
    /\ Len(sem_dup) = 2
    /\ ChaveDe(tabela, lote[1]) = ChaveDe(tabela, lote[3])

(* C11: the deduplicator keeps, for every natural key of the batch, the     *)
(* last row of that key in file order.                                      *)
C11_MantemUltima ==
    pc = "feito" /\ chave(tabela) \subseteq Colunas(lote) =>
        \A i \in DOMAIN sem_dup :
            LET iguais == {j \in DOMAIN lote :
                             ChaveDe(tabela, lote[j]) = ChaveDe(tabela, sem_dup[i])}
                ultima == CHOOSE j \in iguais : \A m \in iguais : m <= j
            IN  sem_dup[i] = lote[ultima]

(* C17: every stored record carries a non-null period stamp, in every       *)
(* reachable state.                                                         *)
C17_SempreCarimbado ==
    \A t \in Tabelas :
        \A i \in DOMAIN Tab(t) : Tab(t)[i].data_atualizacao # SemData

(* C13: composite key distinctness.  A Partner row with a name is stored    *)
(* once applied, and its application leaves every stored Partner of another *)
(* name as it was; two rows of one company with different names both        *)
(* survive the deduplication of the chunk they share.                       *)
C13_NomesDistintos ==
    Aplicou /\ tabela = "socio" /\ ~Vazio(ult.row.nome_socio_razao_social) =>
        /\ \E i \in DOMAIN TabAtual :
              /\ TabAtual[i].cnpj_basico = ult.row.cnpj_basico
              /\ TabAtual[i].nome_socio_razao_social = ult.row.nome_socio_razao_social
        /\ \A i \in DOMAIN ult.antes :
              ult.antes[i].nome_socio_razao_social # ult.row.nome_socio_razao_social
                  => TabAtual[i] = ult.antes[i]
        /\ \A l1, l2 \in LinhasBrutas("socio") :
              /\ l1.cnpj_basico = l2.cnpj_basico
              /\ l1.nome_socio_razao_social # l2.nome_socio_razao_social
              => Len(_remover_duplicatas("socio",
                        PrepararChunk("socio", <<l1, l2>>, pasta_nome))) = 2

\* two partners of one company, inserted by one chunk and stored side by side
C13_Witness ==
    /\ Aplicou
    /\ tabela = "socio"
    /\ ult.op = "inserido"
    /\ Len(ult.antes) = 1
    /\ Len(TabAtual) = 2
    /\ TabAtual[1] = ult.antes[1]
    /\ TabAtual[1].cnpj_basico = TabAtual[2].cnpj_basico
    /\ ~Vazio(TabAtual[1].nome_socio_razao_social)
    /\ ~Vazio(TabAtual[2].nome_socio_razao_social)
    /\ TabAtual[1].nome_socio_razao_social # TabAtual[2].nome_socio_razao_social
    /\ inseridos = 2

(* C18: Company stamp rule.  When a row is applied to a stored Company, the *)
(* stamp becomes the incoming period if that period is greater than the     *)
(* stored stamp (a record without stamp has none to be greater than or      *)
(* equal to) or the stored legal name or legal-nature code is blank,        *)
(* whether or not any field changes.                                        *)
C18_CarimboEmpresa ==
    Aplicou /\ tabela = "empresa" =>
        \A i \in Achados :
            LET antigo == ult.antes[i].data_atualizacao
                novo == ult.row.data_atualizacao
            IN  \/ Vazio(ult.antes[i].razao_social)
                \/ Vazio(ult.antes[i].natureza_juridica)
                \/ antigo = SemData
                \/ antigo[1] < novo[1]
                \/ antigo[1] = novo[1] /\ antigo[2] < novo[2]
                => TabAtual[i].data_atualizacao = novo

(* C20: chunk atomicity.  The durable store is at every moment the store as *)
(* it was at the last chunk boundary, and a stopped run leaves exactly      *)
(* that: the rows of whole chunks, none of the chunk in flight.             *)
C20_ChunkAtomico ==
    /\ duravel = inicio
    /\ pc = "ocioso" => TabAtual = duravel
    /\ pc = "parado" => TabAtual = inicio

\* a run stopped inside a chunk whose rows had changed the table: the store
\* is back at the earlier chunks' rows
C20_Witness ==
    /\ pc = "parado"
    /\ ult.antes # TabAtual
    /\ Len(ult.antes) = 2
    /\ Len(TabAtual) = 1
    /\ TabAtual = inicio

(* C14: the files of a type are imported in non-decreasing order of period: *)
(* no imported file is of a later period than a file imported after it or   *)
(* still waiting, and every file found is imported or waiting, once.        *)
C14_OrdemCronologica ==
    /\ \A i, j \in DOMAIN feitos :
          i < j => ~PeriodoMenor(feitos[j], feitos[i])
    /\ \A i \in DOMAIN feitos : \A j \in DOMAIN fila :
          ~PeriodoMenor(PeriodoDe(fila[j]), feitos[i])
    /\ pc \in {"run", "fim"} => Len(feitos) + Len(fila) = Len(descobertos)

\* a run whose files were found later period first and imported earlier
\* period first
C14_Witness ==
    /\ pc = "fim"
    /\ Len(feitos) >= 2
    /\ PeriodoMenor(PeriodoDe(descobertos[2]), PeriodoDe(descobertos[1]))
    /\ PeriodoMenor(feitos[1], feitos[2])

(* C12: chronological supersession.  Once the files up to a period are      *)
(* imported, an Establishment key that a file of an earlier period showed   *)
(* with a blank phone and a file of this period shows with a phone has a    *)
(* stored record holding a phone of this period and stamped with it.        *)
C12_Supersessao ==
    tabela = "estabelecimento" /\ pc \in {"run", "fim"} =>
        \A v, w \in avistados :
            /\ ChaveDe(tabela, v) = ChaveDe(tabela, w)
            /\ Vazio(v.telefone1)
            /\ ~Vazio(w.telefone1)
            /\ PeriodoMenor(PeriodoDaLinha(v), PeriodoDaLinha(w))
            /\ PeriodoDaLinha(w) = pasta_nome
            => \E i \in DOMAIN estabelecimento :
                  /\ ChaveDe(tabela, estabelecimento[i]) = ChaveDe(tabela, w)
                  /\ \E u \in avistados :
                        /\ ChaveDe(tabela, u) = ChaveDe(tabela, w)
                        /\ PeriodoDaLinha(u) = pasta_nome
                        /\ ~Vazio(u.telefone1)
                        /\ estabelecimento[i].telefone1 = u.telefone1
                  /\ estabelecimento[i].data_atualizacao = DataAtualizacao(pasta_nome)

(* C19: stamp end-state.  When the run is over, the stamp of every stored   *)
(* record is the most recent period in which a line of its key supplied     *)
(* non-blank data.                                                          *)
C19_CarimboFinal ==
    pc = "fim" =>
        \A i \in DOMAIN TabAtual :
            LET S == {v \in avistados :
                        /\ ChaveDe(tabela, v) = ChaveDe(tabela, TabAtual[i])
                        /\ ForneceDados(tabela, v)}
            IN  S # {} =>
                    \E v \in S :
                        /\ \A u \in S : ~PeriodoMenor(PeriodoDaLinha(v), PeriodoDaLinha(u))
                        /\ TabAtual[i].data_atualizacao = v.data_atualizacao

\* the file of the newest period among the listed files of the reference table
ArquivoMaisNovo ==
    CHOOSE a \in {arquivos_ref[i] : i \in DOMAIN arquivos_ref} :
        \A i \in DOMAIN arquivos_ref :
            ~PeriodoMenor(PeriodoDe(a.pasta), PeriodoDe(arquivos_ref[i].pasta))

\* the rows of a table or of a file, as a set
LinhasDe(d) == {d[i] : i \in DOMAIN d}

\* C15: after the reference table loader has loaded the table, the table
\* holds the deduplicated rows of the file of the newest period among the
\* discovered folders that have a file of the table.
C15_ArquivoMaisNovo ==
    pc = "ref_ok" =>
        referencia = drop_duplicates(ArquivoMaisNovo.linhas, DOMAIN LinhaAntiga)

\* C16: a successful load replaces the reference table wholesale: the table
\* holds exactly the rows of the chosen file, and a row that was in the table
\* before and is not in that file is gone.
C16_SubstituiTudo ==
    pc = "ref_ok" =>
        /\ LinhasDe(referencia) = LinhasDe(arquivos_ref[1].linhas)
        /\ \A l \in LinhasDe(ref_antes) :
              l \notin LinhasDe(arquivos_ref[1].linhas) => l \notin LinhasDe(referencia)

(* C21: a row whose application raises an error (a Partner row without a   *)
(* name, which the NOT NULL constraint rejects) is skipped alone: the table *)
(* keeps what the rows before it did, nothing is counted for it, and the    *)
(* row loop goes on to the rest of the chunk and its commit.                *)
C21_ErroIsolado ==
    (Aplicou /\ tabela = "socio" /\ ult.row.nome_socio_razao_social = None) =>
        /\ ult.op = "erro"
        /\ TabAtual = ult.antes
        /\ pc = "upsert"
        /\ Len(TabAtual) = Len(inicio) + inseridos

\* an error row after a row of the same chunk that inserted a record
C21_Witness ==
    /\ Aplicou
    /\ tabela = "socio"
    /\ ult.row.nome_socio_razao_social = None
    /\ inseridos >= 1
    /\ TabAtual # inicio

(* C22: when the commit of a chunk has raised, the handler re-applies the   *)
(* chunk and leaves it committed, and the loop goes on with the next chunk  *)
(* of the file: the step out of the handler never ends the file.            *)
C22_FallbackRecupera ==
    [][pc = "fallback" =>
          /\ pc' = "arquivo"
          /\ restantes' = restantes - 1
          /\ duravel' = TabAtual']_vars

(* C30: when the processing of a file ends, the insert count it returns is  *)
(* the number of records the file added to the committed table, and the     *)
(* update count is the number of UPDATEs of the file that changed a row,    *)
(* whatever failed on the way.                                              *)
C30_ContadoresCoerentes ==
    pc = "fim_arquivo" =>
        /\ retorno[1] = Len(duravel) - Len(inicio)
        /\ retorno[2] = alteradas

\* a capital value of a source file that is not blank and is no number
CapitalMalformado(s) == s # <<>> /\ ToNumeric(StrReplaceVirgula(AstypeStr(s))) = NaN

(* C24: a Company row whose capital cannot be parsed as a number is skipped: *)
(* applied to the table as it stands, in any period, it neither inserts a   *)
(* record nor changes one.                                                  *)
C24_CapitalInvalidoIgnorado ==
    \A bruta \in LinhasBrutas("empresa"), pasta \in Pastas :
        CapitalMalformado(bruta.capital_social) =>
            UpsertLinha("empresa", empresa,
                        PrepararLinha("empresa", bruta, pasta)).tab = empresa

\* the natural keys of the records of a table
ChavesDe(t, tab) == {ChaveDe(t, tab[i]) : i \in DOMAIN tab}

(* C26: no retraction: no step removes a key from the committed table, and  *)
(* no step of the import removes a key from the table it is writing (the    *)
(* only records that go are the uncommitted ones of a stopped run).         *)
C26_SemRetracao ==
    [][/\ ChavesDe(tabela, duravel) \subseteq ChavesDe(tabela, duravel')
       /\ Len(duravel) <= Len(duravel')
       /\ pc' # "parado" =>
             /\ ChavesDe(tabela, TabAtual) \subseteq ChavesDe(tabela, TabAtual')
             /\ Len(TabAtual) <= Len(TabAtual')]_vars

\* a row was applied and found its record, while a committed record
\* of another key, which the row does not mention, is stored and stays
C26_Witness ==
    /\ Aplicou
    /\ ult.op = "atualizado"
    /\ \E i \in DOMAIN ult.antes :
          /\ ChaveDe(tabela, ult.antes[i]) # ChaveDe(tabela, ult.row)
          /\ ChaveDe(tabela, ult.antes[i]) \in ChavesDe(tabela, TabAtual)
          /\ ult.antes[i] \in {duravel[j] : j \in DOMAIN duravel}

(* C29: frame of a row application: every record stored before it is still *)
(* at its place with its key fields as they were, a record whose key is not *)
(* the key of the row is untouched in every field, and the tables of the    *)
(* other entity types are untouched.                                        *)
C29_Moldura ==
    Aplicou =>
        /\ \A i \in DOMAIN ult.antes :
              /\ i \in DOMAIN TabAtual
              /\ ChaveDe(tabela, TabAtual[i]) = ChaveDe(tabela, ult.antes[i])
              /\ ChaveDe(tabela, ult.antes[i]) # ChaveDe(tabela, ult.row)
                    => TabAtual[i] = ult.antes[i]
        /\ \A t \in Tabelas \ {tabela} : Tab(t) = <<>>

\* a row changed the record of its key while a record of another key is stored
C29_Witness ==
    /\ Aplicou
    /\ ult.op = "atualizado"
    /\ TabAtual # ult.antes
    /\ \E i \in DOMAIN ult.antes :
          ChaveDe(tabela, ult.antes[i]) # ChaveDe(tabela, ult.row)

\* the files the main import has to take: type after type in the order of
\* tabelas_principais, and the files of a type in the order of their periods
PlanoDe(t) == [i \in DOMAIN Arquivos(t) |-> [tabela |-> t, pasta |-> Arquivos(t)[i]]]
Plano == PlanoDe("empresa") \o PlanoDe("estabelecimento") \o PlanoDe("socio")

\* the files the main import took, imported or failed
Tomados ==
    [i \in DOMAIN tentados |->
        [tabela |-> tentados[i].tabela, pasta |-> tentados[i].pasta]]

(* C23: a file that cannot be read, or whose processing fails, is skipped    *)
(* alone: the files taken so far are the plan's files in the plan's order,  *)
(* whatever failed, and when the main import is over every file of every    *)
(* entity type has been taken.                                              *)
C23_ArquivoIsolado ==
    /\ Tomados = SubSeq(Plano, 1, Len(tentados))
    /\ (pc = "indices" \/ (pc = "terminado" /\ tabelas_criadas)) =>
          Len(tentados) = Len(Plano)

\* a run that ended with its report, in which a file failed, a later file of
\* the same type was imported and a file of another type was imported
C23_Witness ==
    /\ pc = "terminado"
    /\ relatorio
    /\ \E i, j, k \in DOMAIN tentados :
          /\ i < j /\ j < k
          /\ ~tentados[i].ok
          /\ tentados[j].ok /\ tentados[j].tabela = tentados[i].tabela
          /\ tentados[k].ok /\ tentados[k].tabela # tentados[i].tabela

\* the name is a period: YYYY-MM with a month from 01 to 12
PeriodoValido(nome) ==
    /\ EhPastaDeDados(nome)
    /\ ValorDigitos(Mes(nome)) \in 1..12

(* C25: the sequencer fails closed: when an entry of the root carries a     *)
(* period token that is no (year, month), no file is imported and the run   *)
(* ends with an error.                                                      *)
C25_FalhaFechada ==
    (\E n \in DOMAIN diretorio : ~PeriodoValido(n)) =>
        /\ tentados = <<>>
        /\ pc = "terminado" => critico

(* C27: when the root exists and the store opens, the run reaches the final *)
(* statistics report, unless an exception that is no row, chunk or file     *)
(* failure reaches the handler of importar_tudo.                            *)
C27_SempreRelatorio ==
    (pc = "main" /\ raiz_existe /\ db_abre) ~> (relatorio \/ critico)

(* C28: when the root is missing or the store cannot be opened, the run     *)
(* ends with exit status 1, and no table was created and no file imported.  *)
C28_FatalAborta ==
    (pc = "terminado" /\ (~raiz_existe \/ ~db_abre)) =>
        /\ saida = 1
        /\ ~tabelas_criadas
        /\ tentados = <<>>

\* the line can create a record: every key field is given and the required
\* field of its type is not blank
Completa(t, v) ==
    /\ \A c \in chave(t) : v[c] # None
    /\ PodeInserir(t, v)
    /\ ~NotNullViolado(t, Registro(t, v))

(* C31: every line of a file is a data row, its first line included: once a *)
(* file is processed, every key that a line of the files read so far shows  *)
(* with all key fields and the required field given has a stored record.    *)
C31_PrimeiraLinha ==
    pc \in {"run", "fim"} =>
        \A v \in {w \in avistados : Completa(tabela, w)} :
            \E i \in DOMAIN TabAtual :
                ChaveDe(tabela, TabAtual[i]) = ChaveDe(tabela, v)

(* C32: stamp monotonicity: a row application never moves the stamp of a    *)
(* stored record to an earlier period, nor takes it away, whatever the      *)
(* order in which the periods reach the store.                              *)
C32_CarimboMonotono ==
    Aplicou =>
        \A i \in DOMAIN ult.antes :
            ult.antes[i].data_atualizacao # SemData =>
                /\ TabAtual[i].data_atualizacao # SemData
                /\ ~DataMaior(ult.antes[i].data_atualizacao,
                              TabAtual[i].data_atualizacao)

\* a value made only of whitespace
SoEspacos(v) == v # None /\ v # "" /\ Strip(v) = ""

(* C34: consistent blankness: applying a row whose value of a text field is
   made only of whitespace never replaces a stored non-blank value of that
   field: the stored record the row's key finds keeps the value it had. *)
C34_BrancoConsistente ==
    Aplicou =>
        \A i \in Achados : \A F \in MergeaveisTexto(tabela) \ {"data_atualizacao"} :
            ( /\ SoEspacos(ult.row[F])
              /\ ult.antes[i][F] # None
              /\ Strip(ult.antes[i][F]) # "" )
                => TabAtual[i][F] = ult.antes[i][F]

-----------------------------------------------------------------------------
(* The import of one type run twice over the same files: the database file  *)
(* and the folders outlive the process, so the second run meets the table   *)
(* the first one left.  Every file is readable in both runs and every row   *)
(* has its key fields filled.                                               *)

\* the lines of a file whose key fields are all non-blank
LinhasChaveCompleta(t) ==
    {l \in LinhasDeArquivo(t) : \A c \in chave(t) : Strip(l[c]) # ""}

\* a file: its first line and at most one chunk of rows
ConteudosChaveCompleta(t) ==
    UNION {[1..n -> LinhasChaveCompleta(t)] : n \in 1..(MaxChunk + 1)}

\* the folders of a list of files
PastasDe(s) == [i \in DOMAIN s |-> s[i].pasta]

\* arquivos_ordenados = sorted(estrutura_completa[tabela], key=...): the files
\* of the type with their lines, in the order the loop takes them
ArquivosOrdenados(t) ==
    {s \in UNION {[1..n -> [pasta : NomesPasta, linhas : ConteudosChaveCompleta(t)]] :
                     n \in 1..MaxArquivos} :
        PastasDe(s) = sorted(sort(PastasDe(s)))}

InitDuasVezes ==
    /\ empresa = <<>>
    /\ estabelecimento = <<>>
    /\ socio = <<>>
    /\ tabela \in Tabelas
    /\ pasta_nome = <<0, 0>>
    /\ df = <<>>
    /\ pc = "run"
    /\ inseridos = 0
    /\ atualizados = 0
    /\ ult = [op |-> "nenhum", row |-> NenhumaLinha, antes |-> <<>>, rep |-> FALSE]
    /\ lote = <<>>
    /\ sem_dup = <<>>
    /\ duravel = <<>>
    /\ inicio = <<>>
    /\ arquivos_ordenados \in ArquivosOrdenados(tabela)
    /\ descobertos = PastasDe(arquivos_ordenados)
    /\ fila = PastasDe(arquivos_ordenados)
    /\ feitos = <<>>
    /\ avistados = {}
    /\ referencia = <<>>
    /\ arquivos_ref = <<>>
    /\ ref_antes = <<>>
    /\ restantes = 0
    /\ total_registros = 0
    /\ atualizacoes = 0
    /\ retorno = <<>>
    /\ alteradas = 0
    /\ falhou = FALSE
    /\ raiz_existe = TRUE
    /\ db_abre = TRUE
    /\ diretorio = <<>>
    /\ estrutura_completa = <<>>
    /\ tabelas_criadas = FALSE
    /\ tentados = <<>>
    /\ relatorio = FALSE
    /\ critico = FALSE
    /\ saida = -1
    /\ rodada = 1
    /\ fim_primeira = <<>>

\* importar_dados_principais, one iteration of "for arquivo in
\* arquivos_ordenados" on the file the loop has reached:
\* _importar_arquivo_principal reads it, cleans, stamps, converts and
\* deduplicates its chunk, applies it and commits
ImportarArquivoOrdenado ==
    /\ pc = "run"
    /\ fila # <<>>
    /\ LET arquivo == arquivos_ordenados[Len(arquivos_ordenados) - Len(fila) + 1]
           periodo == PeriodoDe(arquivo.pasta)
           chunk == _remover_duplicatas(tabela,
                        PrepararChunk(tabela, read_csv(arquivo.linhas), periodo))
           nova == UpsertTodas(tabela, Tab(tabela), chunk)
       IN  /\ empresa' = IF tabela = "empresa" THEN nova ELSE empresa
           /\ estabelecimento' =
                 IF tabela = "estabelecimento" THEN nova ELSE estabelecimento
           /\ socio' = IF tabela = "socio" THEN nova ELSE socio
           /\ duravel' = nova
           /\ inicio' = nova
           /\ pasta_nome' = periodo
           /\ avistados' = avistados \cup
                 {PrepararLinha(tabela, arquivo.linhas[i], periodo) :
                     i \in DOMAIN arquivo.linhas}
           /\ feitos' = Append(feitos, periodo)
    /\ fila' = Tail(fila)
    /\ pc' = IF Tail(fila) = <<>> THEN "fim" ELSE "run"
    /\ UNCHANGED <<tabela, df, inseridos, atualizados, ult, lote, sem_dup,
                   descobertos>>
    /\ UNCHANGED <<arquivos_ordenados, rodada, fim_primeira>>
    /\ UNCHANGED vars_ref
    /\ UNCHANGED vars_arq
    /\ UNCHANGED vars_tudo

\* the program is started again after a complete run: the scan finds the same
\* files and sorts them the same way, and the loop starts over on the table
\* the first run committed.  History: fim_primeira keeps that table.
ExecutarDeNovo ==
    /\ pc = "fim"
    /\ rodada = 1
    /\ rodada' = 2
    /\ fim_primeira' = Tab(tabela)
    /\ fila' = PastasDe(arquivos_ordenados)
    /\ feitos' = <<>>
    /\ pc' = "run"
    /\ UNCHANGED <<empresa, estabelecimento, socio, tabela, pasta_nome, df,
                   inseridos, atualizados, ult, lote, sem_dup, duravel, inicio,
                   descobertos, avistados, arquivos_ordenados>>
    /\ UNCHANGED vars_ref
    /\ UNCHANGED vars_arq
    /\ UNCHANGED vars_tudo

NextDuasVezes == ImportarArquivoOrdenado \/ ExecutarDeNovo

SpecDuasVezes == InitDuasVezes /\ [][NextDuasVezes]_vars

\* the columns of a record other than its period stamp
SemCarimbo(t) == estrutura_colunas(t)

(* C33: re-run convergence: when the whole import has run a second time over
   the same files in the same period order, every row having every key field
   non-blank, the table holds no record the first run did not leave and every
   non-stamp field of every record has the value it had when the first run
   ended. *)
C33_SegundaRodadaIgual ==
    (pc = "fim" /\ rodada = 2) =>
        /\ Len(TabAtual) = Len(fim_primeira)
        /\ \A i \in DOMAIN fim_primeira : \A F \in SemCarimbo(tabela) :
              TabAtual[i][F] = fim_primeira[i][F]

====
